---------------------------- MODULE Spec2Model ----------------------------
(***************************************************************************)
(* The library application of src/app.py over the schema of src/init.py.   *)
(*                                                                         *)
(* The state is the content of library.db (tables authors, books, quotes,  *)
(* users), the session cookie of one client, and the response to the last  *)
(* request.  One action per route handler (and HTTP method); each action   *)
(* is the whole request: the before_request gate, the handler's            *)
(* statements, and the commit.  The handlers that write authors and the    *)
(* cascade of delete_author are also modelled statement by statement, on   *)
(* several connections at once, in the section on connections.             *)
(*                                                                         *)
(* Rows are never removed and ids are AUTOINCREMENT, so a table is a       *)
(* sequence of rows and a row's id is its index.  Text that the code       *)
(* strips or matches with LIKE is a sequence of one-character strings;     *)
(* other text is a string.  A nullable value is a set with at most one     *)
(* element: {} is NULL / None.                                             *)
(***************************************************************************)
EXTENDS Integers, Sequences, FiniteSets, TLC

VARIABLES
    authors,    \* Seq of [name, is_deleted]                       init.py:11-15
    books,      \* Seq of [title, author_id, format, status,
                \*         total_pages, current_page, deleted]     init.py:18-30
    quotes,     \* Seq of [book_id, content, page_number,
                \*         is_deleted]                             init.py:33-41
    users,      \* Seq of [username, password_hash, is_admin]      app.py:38-44
    session,    \* [user_id, username, is_admin], each {} or {v}   app.py:114-116
    resp,       \* the last request and the response to it
    conn,       \* the requests in flight, one per connection        app.py:15-22
    txn         \* the open write transaction and its uncommitted rows

vars == <<authors, books, quotes, users, session, resp, conn, txn>>

(***************************************************************************)
(* Bounds of the model.                                                    *)
(***************************************************************************)
MaxAuthors == 2
MaxBooks == 2
MaxQuotes == 2
MaxPage == 1
MaxUsers == 1
MaxRows == 1
MaxConns == 2
MaxDeletes == 1

(***************************************************************************)
(* Values.                                                                 *)
(***************************************************************************)
NULL == {}
Some(v) == {v}
Val(x) == CHOOSE v \in x : TRUE

HTTP_OK == 200
HTTP_FOUND == 302
HTTP_BAD_REQUEST == 400
HTTP_NOT_FOUND == 404
HTTP_NOT_ALLOWED == 405
HTTP_SERVER_ERROR == 500

UpperCase == <<"A", "B", "C", "D", "E", "F", "G", "H", "I", "J", "K", "L", "M",
               "N", "O", "P", "Q", "R", "S", "T", "U", "V", "W", "X", "Y", "Z">>
LowerCase == <<"a", "b", "c", "d", "e", "f", "g", "h", "i", "j", "k", "l", "m",
               "n", "o", "p", "q", "r", "s", "t", "u", "v", "w", "x", "y", "z">>

\* SQLite folds the case of ASCII letters only when it compares with LIKE.
Lower(c) ==
    IF \E i \in 1..Len(UpperCase) : UpperCase[i] = c
    THEN LowerCase[CHOOSE i \in 1..Len(UpperCase) : UpperCase[i] = c]
    ELSE c

\* s LIKE p: % matches any run of characters, _ any one character, every
\* other character itself up to ASCII case.  No ESCAPE is given.
RECURSIVE Like(_, _)
Like(s, p) ==
    IF p = <<>> THEN s = <<>>
    ELSE IF Head(p) = "%"
         THEN Like(s, Tail(p)) \/ (s # <<>> /\ Like(Tail(s), p))
         ELSE /\ s # <<>>
              /\ (Head(p) = "_" \/ Lower(Head(p)) = Lower(Head(s)))
              /\ Like(Tail(s), Tail(p))

\* f"%{search}%"
SearchPattern(search) == <<"%">> \o search \o <<"%">>

Whitespace == {" "}

\* str.strip()
RECURSIVE LStrip(_)
LStrip(s) == IF s # <<>> /\ Head(s) \in Whitespace THEN LStrip(Tail(s)) ELSE s
RECURSIVE RStrip(_)
RStrip(s) ==
    IF s # <<>> /\ s[Len(s)] \in Whitespace
    THEN RStrip(SubSeq(s, 1, Len(s) - 1))
    ELSE s
Strip(s) == RStrip(LStrip(s))

\* generate_password_hash / check_password_hash: the hash of a password is
\* matched by that password and by no other.
generate_password_hash(password) == <<"hash", password>>
\* Mutant: every password matches.
AnyPasswordMatches(pwhash, password) == TRUE
check_password_hash(pwhash, password) == pwhash = generate_password_hash(password)

\* n, n-1, ..., 1: the ids of a table of n rows in ORDER BY id DESC.
Desc(n) == [i \in 1..n |-> n + 1 - i]
Asc(n) == [i \in 1..n |-> i]

(***************************************************************************)
(* Requests and responses.                                                 *)
(***************************************************************************)
Path(endpoint, arg) == [endpoint |-> endpoint, arg |-> arg]
NoPath == Path("", 0)

\* op, method: the request's endpoint and HTTP method.  handled: the route handler ran.  location: the redirect's target, next:
\* its next= parameter.  body: the ids of the rows rendered.  flash: the
\* message flashed.
Response(op, method, handled, status, location, next, body, flash) ==
    [op |-> op, method |-> method, handled |-> handled,
     status |-> status, location |-> location, next |-> next,
     body |-> body, flash |-> flash]

Redirect(op, method, location) ==
    Response(op, method, TRUE, HTTP_FOUND, location, NoPath, <<>>, "")
Render(op, method, body) ==
    Response(op, method, TRUE, HTTP_OK, NoPath, NoPath, body, "")
\* An exception no handler catches: Flask answers 500; the connection is
\* closed with nothing committed.
Unhandled(op, method) ==
    Response(op, method, TRUE, HTTP_SERVER_ERROR, NoPath, NoPath, <<>>, "")

(***************************************************************************)
(* The auth gate.                                                          *)
(***************************************************************************)
exempt_endpoints == {"login", "logout", "static"}

\* request.endpoint of a request no route matches
NoEndpoint == "None"

\* session.get("user_id") is falsy
NoUser == session.user_id = NULL

\* Mutant: the return for exempt endpoints is taken for every routed
\* endpoint, so only unrouted requests are gated.
BlockedOnlyUnrouted(endpoint) == endpoint = NoEndpoint /\ NoUser

\* require_login returns a redirect (the handler is not called)
Blocked(endpoint) == endpoint \notin exempt_endpoints /\ NoUser

GateRedirect(op, method, arg) ==
    Response(op, method, FALSE, HTTP_FOUND, Path("login", 0), Path(op, arg),
             <<>>, "")

Tables == <<authors, books, quotes, users>>

\* A request to `op`: the gate's redirect, or the handler's effect.
Request(op, method, arg, handler) ==
    /\ UNCHANGED <<conn, txn>>
    /\ IF Blocked(op)
       THEN /\ resp' = GateRedirect(op, method, arg)
            /\ UNCHANGED <<Tables, session>>
       ELSE handler

(***************************************************************************)
(* Queries.                                                                *)
(***************************************************************************)
\* SELECT id FROM authors WHERE name = ?  (fetchone)
AuthorByName(name) ==
    LET found == {i \in DOMAIN authors : authors[i].name = name}
    IN  IF found = {} THEN NULL
        ELSE Some(CHOOSE i \in found : \A j \in found : i <= j)

\* Mutant: the name column has no UNIQUE constraint.
NoUniqueConstraint(name, self) == FALSE

\* name TEXT NOT NULL UNIQUE: an INSERT or UPDATE giving row `self` (0 for a
\* new row) this name raises sqlite3.IntegrityError.
UniqueViolation(name, self) ==
    \E i \in DOMAIN authors : i # self /\ authors[i].name = name

\* INSERT INTO authors (name) VALUES (?)
InsertAuthor(name) == Append(authors, [name |-> name, is_deleted |-> 0])

\* username TEXT UNIQUE NOT NULL
UsernameTaken(username) == \E i \in DOMAIN users : users[i].username = username

\* SELECT * FROM users WHERE username = ?  (fetchone)
get_user_by_username(username) ==
    LET found == {i \in DOMAIN users : users[i].username = username}
    IN  IF found = {} THEN NULL
        ELSE Some(CHOOSE i \in found : \A j \in found : i <= j)

\* books JOIN authors ON books.author_id = authors.id
JoinsAuthor(b) == books[b].author_id \in DOMAIN authors
\* quotes JOIN books ON quotes.book_id = books.id
JoinsBook(q) == quotes[q].book_id \in DOMAIN books

\* The WHERE clause of the book list, with and without a search term.
BookListed(b, search) ==
    /\ JoinsAuthor(b)
    /\ books[b].deleted = 0
    /\ search # <<>> =>
         \/ Like(books[b].title, SearchPattern(search))
         \/ Like(authors[books[b].author_id].name, SearchPattern(search))

BookList(search) ==
    SelectSeq(Desc(Len(books)), LAMBDA b : BookListed(b, search))

\* The WHERE clause of the quote list.  AND binds tighter than OR: with a
\* search term it reads content LIKE ? OR (title LIKE ? AND deleted = 0).
QuoteListed(q, search) ==
    /\ JoinsBook(q)
    /\ IF search # <<>>
       THEN \/ Like(quotes[q].content, SearchPattern(search))
            \/ /\ Like(books[quotes[q].book_id].title, SearchPattern(search))
               /\ books[quotes[q].book_id].deleted = 0
       ELSE /\ books[quotes[q].book_id].deleted = 0
            /\ quotes[q].is_deleted = 0

QuoteList(search) ==
    SelectSeq(Desc(Len(quotes)), LAMBDA q : QuoteListed(q, search))

\* SELECT * FROM authors WHERE is_deleted=0 [AND name LIKE ?]
AuthorListed(a, search) ==
    /\ authors[a].is_deleted = 0
    /\ search # <<>> => Like(authors[a].name, SearchPattern(search))

(***************************************************************************)
(* Authentication routes and the user command.                             *)
(***************************************************************************)
\* python app.py create-user: not a request, no gate, no response.
create_user(username, password, is_admin) ==
    /\ IF UsernameTaken(username)
       THEN UNCHANGED users
       ELSE users' = Append(users,
                [username |-> username,
                 password_hash |-> generate_password_hash(password),
                 is_admin |-> IF is_admin THEN 1 ELSE 0])
    /\ UNCHANGED <<authors, books, quotes, session, resp, conn, txn>>

InvalidCredentials == "Invalid username or password"

login_get ==
    Request("login", "GET", 0,
        /\ resp' = IF ~NoUser
                   THEN Redirect("login", "GET", Path("dashboard", 0))
                   ELSE Render("login", "GET", <<>>)
        /\ UNCHANGED <<Tables, session>>)

\* next: the next= parameter of the URL (NoPath when absent).
login_post(form_username, password, next) ==
    Request("login", "POST", 0,
        IF ~NoUser
        THEN /\ resp' = Redirect("login", "POST", Path("dashboard", 0))
             /\ UNCHANGED <<Tables, session>>
        ELSE LET username == Strip(form_username)
                 user == get_user_by_username(username)
             IN  IF /\ user # NULL
                    /\ check_password_hash(users[Val(user)].password_hash, password)
                 THEN /\ session' = [user_id |-> Some(Val(user)),
                                     username |-> Some(users[Val(user)].username),
                                     is_admin |-> Some(users[Val(user)].is_admin # 0)]
                      /\ resp' = Redirect("login", "POST",
                                    IF next # NoPath THEN next
                                    ELSE Path("dashboard", 0))
                      /\ UNCHANGED Tables
                 ELSE /\ resp' = Response("login", "POST", TRUE, HTTP_OK, NoPath,
                                          NoPath, <<>>, InvalidCredentials)
                      /\ UNCHANGED <<Tables, session>>)

logout ==
    Request("logout", "GET", 0,
        /\ session' = [user_id |-> NULL, username |-> NULL, is_admin |-> NULL]
        /\ resp' = Redirect("logout", "GET", Path("login", 0))
        /\ UNCHANGED Tables)

\* /static/<path>: Flask's own endpoint, exempt from the gate.
static ==
    Request("static", "GET", 0,
        /\ resp' = Render("static", "GET", <<>>)
        /\ UNCHANGED <<Tables, session>>)

(***************************************************************************)
(* Dashboard.                                                              *)
(***************************************************************************)
\* body: the ids of the (at most 5) most recent non-deleted books.
dashboard ==
    Request("dashboard", "GET", 0,
        /\ resp' = Render("dashboard", "GET",
                       LET recent == BookList(<<>>)
                       IN  SubSeq(recent, 1, IF Len(recent) < 5 THEN Len(recent) ELSE 5))
        /\ UNCHANGED <<Tables, session>>)

(***************************************************************************)
(* Books.                                                                  *)
(***************************************************************************)
books_list(search) ==
    Request("books", "GET", 0,
        /\ resp' = Render("books", "GET", BookList(search))
        /\ UNCHANGED <<Tables, session>>)

add_book_get ==
    Request("add_book", "GET", 0,
        /\ resp' = Render("add_book", "GET", <<>>)
        /\ UNCHANGED <<Tables, session>>)

\* "Get or create author": the authors table and the id after it.
AuthorsAfterResolve(author_name) ==
    IF AuthorByName(author_name) = NULL THEN InsertAuthor(author_name) ELSE authors
ResolvedAuthorId(author_name) ==
    IF AuthorByName(author_name) = NULL
    THEN Len(authors) + 1                         \* cur.lastrowid
    ELSE Val(AuthorByName(author_name))

BookRow(title, author_id, format, status, total_pages, current_page, deleted) ==
    [title |-> title, author_id |-> author_id, format |-> format,
     status |-> status, total_pages |-> total_pages,
     current_page |-> current_page, deleted |-> deleted]

add_book_post(title, author_name, format, status, total_pages, current_page) ==
    Request("add_book", "POST", 0,
        IF AuthorByName(author_name) = NULL /\ UniqueViolation(author_name, 0)
        THEN /\ resp' = Unhandled("add_book", "POST")
             /\ UNCHANGED <<Tables, session>>
        ELSE /\ authors' = AuthorsAfterResolve(author_name)
             /\ books' = Append(books,
                    BookRow(title, ResolvedAuthorId(author_name), format, status,
                            total_pages, current_page, 0))
             /\ resp' = Redirect("add_book", "POST", Path("books", 0))
             /\ UNCHANGED <<quotes, users, session>>)

\* The UPDATE matches no row when book_id is not a book's id; the author
\* has been resolved (and perhaps inserted) by then, and is committed.
edit_book_post(book_id, title, author_name, format, status, total_pages, current_page) ==
    Request("edit_book", "POST", book_id,
        IF AuthorByName(author_name) = NULL /\ UniqueViolation(author_name, 0)
        THEN /\ resp' = Unhandled("edit_book", "POST")
             /\ UNCHANGED <<Tables, session>>
        ELSE /\ authors' = AuthorsAfterResolve(author_name)
             /\ books' = [b \in DOMAIN books |->
                    IF b = book_id
                    THEN BookRow(title, ResolvedAuthorId(author_name), format,
                                 status, total_pages, current_page,
                                 books[b].deleted)
                    ELSE books[b]]
             /\ resp' = Redirect("edit_book", "POST", Path("books", 0))
             /\ UNCHANGED <<quotes, users, session>>)

\* body: the book fetched (none when no book has the id).
edit_book_get(book_id) ==
    Request("edit_book", "GET", book_id,
        /\ resp' = Render("edit_book", "GET",
                       IF book_id \in DOMAIN books /\ JoinsAuthor(book_id)
                       THEN <<book_id>> ELSE <<>>)
        /\ UNCHANGED <<Tables, session>>)

\* body: the ids of the book's non-deleted quotes, ORDER BY id ASC.
view_book(book_id) ==
    Request("view_book", "GET", book_id,
        /\ resp' = IF /\ book_id \in DOMAIN books
                      /\ JoinsAuthor(book_id)
                      /\ books[book_id].deleted = 0
                   THEN Render("view_book", "GET",
                            SelectSeq(Asc(Len(quotes)), LAMBDA q :
                                /\ quotes[q].book_id = book_id
                                /\ quotes[q].is_deleted = 0))
                   ELSE Response("view_book", "GET", TRUE,
                                 HTTP_NOT_FOUND, NoPath, NoPath, <<>>, "")
        /\ UNCHANGED <<Tables, session>>)

\* UPDATE books SET deleted = 1 WHERE id = ?
BooksAfterDeleteBook(book_id) ==
    [b \in DOMAIN books |->
        IF b = book_id THEN [books[b] EXCEPT !.deleted = 1] ELSE books[b]]
\* Mutant: the UPDATE has lost its WHERE clause.
QuotesAfterDeleteBookAll(book_id) ==
    [q \in DOMAIN quotes |-> [quotes[q] EXCEPT !.is_deleted = 1]]

\* UPDATE quotes SET is_deleted = 1 WHERE book_id = ?
QuotesAfterDeleteBook(book_id) ==
    [q \in DOMAIN quotes |->
        IF quotes[q].book_id = book_id
        THEN [quotes[q] EXCEPT !.is_deleted = 1] ELSE quotes[q]]

delete_book(book_id) ==
    Request("delete_book", "GET", book_id,
        /\ books' = BooksAfterDeleteBook(book_id)
        /\ quotes' = QuotesAfterDeleteBook(book_id)
        /\ resp' = Redirect("delete_book", "GET", Path("books", 0))
        /\ UNCHANGED <<authors, users, session>>)

(***************************************************************************)
(* Quotes.                                                                 *)
(***************************************************************************)
quotes_list(search) ==
    Request("quotes", "GET", 0,
        /\ resp' = Render("quotes", "GET", QuoteList(search))
        /\ UNCHANGED <<Tables, session>>)

add_quote_get ==
    Request("add_quote", "GET", 0,
        /\ resp' = Render("add_quote", "GET", <<>>)
        /\ UNCHANGED <<Tables, session>>)

\* SELECT total_pages FROM books WHERE id = ?  (fetchone): the row, if any.
\* The query does not look at books.deleted.
SelectedBook(book_id) == IF book_id \in DOMAIN books THEN Some(book_id) ELSE NULL

\* fetchone()["total_pages"] on no row, and int > None, raise TypeError.
PageCheckRaises(book_id, page_number) ==
    \/ SelectedBook(book_id) = NULL
    \/ page_number # NULL /\ books[book_id].total_pages = NULL

\* Mutant: the comparison allows one page past the total.
PageExceedsPastOne(book_id, page_number) ==
    /\ page_number # NULL
    /\ Val(page_number) > Val(books[book_id].total_pages) + 1

\* page_number is not None and page_number > total_pages
PageExceeds(book_id, page_number) ==
    /\ page_number # NULL
    /\ Val(page_number) > Val(books[book_id].total_pages)

PageError(op) ==
    Response(op, "POST", TRUE, HTTP_BAD_REQUEST, NoPath, NoPath, <<>>, "")

QuoteRow(book_id, content, page_number, is_deleted) ==
    [book_id |-> book_id, content |-> content, page_number |-> page_number,
     is_deleted |-> is_deleted]

\* page_number: the form's value after int(), NULL for an empty field.
add_quote_post(book_id, content, page_number) ==
    Request("add_quote", "POST", 0,
        IF PageCheckRaises(book_id, page_number)
        THEN /\ resp' = Unhandled("add_quote", "POST")
             /\ UNCHANGED <<Tables, session>>
        ELSE IF PageExceeds(book_id, page_number)
        THEN /\ resp' = PageError("add_quote")
             /\ UNCHANGED <<Tables, session>>
        ELSE /\ quotes' = Append(quotes, QuoteRow(book_id, content, page_number, 0))
             /\ resp' = Redirect("add_quote", "POST", Path("quotes", 0))
             /\ UNCHANGED <<authors, books, users, session>>)

edit_quote_post(quote_id, book_id, content, page_number) ==
    Request("edit_quote", "POST", quote_id,
        IF PageCheckRaises(book_id, page_number)
        THEN /\ resp' = Unhandled("edit_quote", "POST")
             /\ UNCHANGED <<Tables, session>>
        ELSE IF PageExceeds(book_id, page_number)
        THEN /\ resp' = PageError("edit_quote")
             /\ UNCHANGED <<Tables, session>>
        ELSE /\ quotes' = [q \in DOMAIN quotes |->
                    IF q = quote_id
                    THEN QuoteRow(book_id, content, page_number, quotes[q].is_deleted)
                    ELSE quotes[q]]
             /\ resp' = Redirect("edit_quote", "POST", Path("quotes", 0))
             /\ UNCHANGED <<authors, books, users, session>>)

\* body: the quote fetched (none when no quote has the id).
edit_quote_get(quote_id) ==
    Request("edit_quote", "GET", quote_id,
        /\ resp' = Render("edit_quote", "GET",
                       IF quote_id \in DOMAIN quotes THEN <<quote_id>> ELSE <<>>)
        /\ UNCHANGED <<Tables, session>>)

delete_quote(quote_id) ==
    Request("delete_quote", "GET", quote_id,
        /\ quotes' = [q \in DOMAIN quotes |->
               IF q = quote_id THEN [quotes[q] EXCEPT !.is_deleted = 1]
               ELSE quotes[q]]
        /\ resp' = Redirect("delete_quote", "GET", Path("quotes", 0))
        /\ UNCHANGED <<authors, books, users, session>>)

(***************************************************************************)
(* Authors.                                                                *)
(***************************************************************************)
\* The characters of the model in ASCII order, for ORDER BY on text.
AsciiOrder == <<" ", "%">> \o UpperCase \o <<"_">> \o LowerCase
Code(c) == CHOOSE i \in 1..Len(AsciiOrder) : AsciiOrder[i] = c

RECURSIVE TextLess(_, _)
TextLess(s, t) ==
    /\ t # <<>>
    /\ \/ s = <<>>
       \/ Code(Head(s)) < Code(Head(t))
       \/ Head(s) = Head(t) /\ TextLess(Tail(s), Tail(t))

\* The ids in S, ORDER BY name.
RECURSIVE AuthorsByName(_)
AuthorsByName(S) ==
    IF S = {} THEN <<>>
    ELSE LET first == CHOOSE a \in S : \A o \in S \ {a} :
                          TextLess(authors[a].name, authors[o].name)
                          \/ (authors[a].name = authors[o].name /\ a < o)
         IN  <<first>> \o AuthorsByName(S \ {first})

\* The ids in S, ORDER BY title.
RECURSIVE BooksByTitle(_)
BooksByTitle(S) ==
    IF S = {} THEN <<>>
    ELSE LET first == CHOOSE b \in S : \A o \in S \ {b} :
                          TextLess(books[b].title, books[o].title)
                          \/ (books[b].title = books[o].title /\ b < o)
         IN  <<first>> \o BooksByTitle(S \ {first})

authors_list(search) ==
    Request("authors", "GET", 0,
        /\ resp' = Render("authors", "GET",
                       AuthorsByName({a \in DOMAIN authors : AuthorListed(a, search)}))
        /\ UNCHANGED <<Tables, session>>)

add_author_get ==
    Request("add_author", "GET", 0,
        /\ resp' = Render("add_author", "GET", <<>>)
        /\ UNCHANGED <<Tables, session>>)

add_author_post(form_name) ==
    Request("add_author", "POST", 0,
        LET name == Strip(form_name)
        IN  IF name = <<>>
            THEN /\ resp' = Redirect("add_author", "POST", Path("add_author", 0))
                 /\ UNCHANGED <<Tables, session>>
            ELSE /\ authors' = IF UniqueViolation(name, 0)
                               THEN authors          \* except IntegrityError: pass
                               ELSE InsertAuthor(name)
                 /\ resp' = Redirect("add_author", "POST", Path("authors", 0))
                 /\ UNCHANGED <<books, quotes, users, session>>)

\* SELECT * FROM authors WHERE id = ? AND is_deleted = 0
ActiveAuthor(author_id) ==
    author_id \in DOMAIN authors /\ authors[author_id].is_deleted = 0

AuthorNotFound(op, method) ==
    Response(op, method, TRUE, HTTP_FOUND, Path("authors", 0), NoPath, <<>>,
             "Author not found.")

edit_author_get(author_id) ==
    Request("edit_author", "GET", author_id,
        /\ resp' = IF ActiveAuthor(author_id)
                   THEN Render("edit_author", "GET", <<author_id>>)
                   ELSE AuthorNotFound("edit_author", "GET")
        /\ UNCHANGED <<Tables, session>>)

edit_author_post(author_id, form_name) ==
    Request("edit_author", "POST", author_id,
        LET new_name == Strip(form_name)
        IN  IF ~ActiveAuthor(author_id)
            THEN /\ resp' = AuthorNotFound("edit_author", "POST")
                 /\ UNCHANGED <<Tables, session>>
            ELSE IF new_name = <<>>
            THEN /\ resp' = Redirect("edit_author", "POST",
                                     Path("edit_author", author_id))
                 /\ UNCHANGED <<Tables, session>>
            ELSE /\ authors' = IF UniqueViolation(new_name, author_id)
                               THEN authors          \* except IntegrityError: pass
                               ELSE [authors EXCEPT ![author_id].name = new_name]
                 /\ resp' = Redirect("edit_author", "POST",
                                     Path("authors", 0))
                 /\ UNCHANGED <<books, quotes, users, session>>)

\* UPDATE authors SET is_deleted = 1 WHERE id = ?
AuthorsAfterDeleteAuthor(author_id) ==
    [a \in DOMAIN authors |->
        IF a = author_id THEN [authors[a] EXCEPT !.is_deleted = 1] ELSE authors[a]]
\* UPDATE books SET deleted = 1 WHERE author_id = ?
BooksAfterDeleteAuthor(author_id) ==
    [b \in DOMAIN books |->
        IF books[b].author_id = author_id
        THEN [books[b] EXCEPT !.deleted = 1] ELSE books[b]]
\* Mutant: the subquery skips the books already flagged, which by then are
\* all of the author's.
QuotesAfterDeleteAuthorLiveBooks(author_id) ==
    LET after == BooksAfterDeleteAuthor(author_id)
        theirs == {b \in DOMAIN after :
                      after[b].author_id = author_id /\ after[b].deleted = 0}
    IN  [q \in DOMAIN quotes |->
            IF quotes[q].book_id \in theirs
            THEN [quotes[q] EXCEPT !.is_deleted = 1] ELSE quotes[q]]

\* UPDATE quotes SET is_deleted = 1
\* WHERE book_id IN (SELECT id FROM books WHERE author_id = ?)
QuotesAfterDeleteAuthor(author_id) ==
    LET after == BooksAfterDeleteAuthor(author_id)
        theirs == {b \in DOMAIN after : after[b].author_id = author_id}
    IN  [q \in DOMAIN quotes |->
            IF quotes[q].book_id \in theirs
            THEN [quotes[q] EXCEPT !.is_deleted = 1] ELSE quotes[q]]

delete_author(author_id) ==
    Request("delete_author", "POST", author_id,
        /\ authors' = AuthorsAfterDeleteAuthor(author_id)
        /\ books' = BooksAfterDeleteAuthor(author_id)
        /\ quotes' = QuotesAfterDeleteAuthor(author_id)
        /\ resp' = Redirect("delete_author", "POST", Path("authors", 0))
        /\ UNCHANGED <<users, session>>)

\* body: the ids of the author's non-deleted books, ORDER BY title.
author_detail(author_id) ==
    Request("author_detail", "GET", author_id,
        /\ resp' = IF ActiveAuthor(author_id)
                   THEN Render("author_detail", "GET",
                            BooksByTitle({b \in DOMAIN books :
                                /\ books[b].author_id = author_id
                                /\ books[b].deleted = 0}))
                   ELSE AuthorNotFound("author_detail", "GET")
        /\ UNCHANGED <<Tables, session>>)

\* A URL or method no route matches (request.endpoint is None): the gate
\* still runs, then Flask answers 404 (405 for GET /authors/delete/<id>).
no_route(status) ==
    Request(NoEndpoint, "GET", 0,
        /\ resp' = Response(NoEndpoint, "GET", FALSE, status, NoPath, NoPath,
                            <<>>, "")
        /\ UNCHANGED <<Tables, session>>)

(***************************************************************************)
(* Connections.  get_db opens one sqlite3 connection per request           *)
(* (app.py:15-22), so requests that run at once hold separate connections  *)
(* to the same file.  The connection has the sqlite3 module's default      *)
(* isolation_level: the first INSERT or UPDATE of a request opens a        *)
(* transaction, its rows are written to the file by conn.commit(), and     *)
(* closing the connection without a commit discards them.  SQLite lets     *)
(* one connection write at a time: a write statement of another            *)
(* connection waits until the transaction ends.  SELECTs read the          *)
(* committed rows.  conn[p] is the request in flight on connection p: its  *)
(* endpoint, the statement it executes next, the id in its path, the       *)
(* author name submitted and the author id resolved.                       *)
(***************************************************************************)
Conns == 1..MaxConns

Idle == [op |-> "", pc |-> "idle", arg |-> 0, name |-> <<>>, author |-> NULL]

NoTxn == [holder |-> 0, authors |-> <<>>, books |-> <<>>, quotes |-> <<>>]

\* The rows the connection that holds, or is about to open, the write
\* transaction reads.
View ==
    IF txn.holder = 0
    THEN [authors |-> authors, books |-> books, quotes |-> quotes]
    ELSE [authors |-> txn.authors, books |-> txn.books, quotes |-> txn.quotes]

\* No other connection holds the write transaction.
CanWrite(p) == txn.holder \in {0, p}

\* Mutant: the connection is in autocommit mode, every statement is written
\* to the file as it executes.
StatementAutocommit(p, as, bs, qs) ==
    /\ txn' = [holder |-> p, authors |-> as, books |-> bs, quotes |-> qs]
    /\ authors' = as
    /\ books' = bs
    /\ quotes' = qs

\* cursor.execute of an INSERT or UPDATE on connection p leaving these rows:
\* they stay in p's transaction until the commit.
Statement(p, as, bs, qs) ==
    /\ txn' = [holder |-> p, authors |-> as, books |-> bs, quotes |-> qs]
    /\ UNCHANGED <<authors, books, quotes>>

\* The request leaves connection p: teardown closes it (app.py:24-27).
Closed(p) == [conn EXCEPT ![p] = Idle]
Rollback(p) == IF txn.holder = p THEN NoTxn ELSE txn

\* Connection p is free, and the first that is: which of the free
\* connections a request gets makes no difference to it.
Free(p) ==
    /\ conn[p].pc = "idle"
    /\ \A o \in Conns : o < p => conn[o].pc # "idle"

\* A POST arrives on a free connection and passes the gate.
Receive(p, op, arg, name, pc) ==
    /\ Free(p)
    /\ IF Blocked(op)
       THEN /\ resp' = GateRedirect(op, "POST", arg)
            /\ UNCHANGED conn
       ELSE /\ conn' = [conn EXCEPT ![p] = [op |-> op, pc |-> pc, arg |-> arg,
                                            name |-> name, author |-> NULL]]
            /\ UNCHANGED resp
    /\ UNCHANGED <<Tables, session, txn>>

\* The form fields of a book submission other than the author's name.
BookForm ==
    [title |-> <<"a">>, format |-> "PDF", status |-> "Reading",
     total_pages |-> NULL, current_page |-> 0]

begin_add_book(p, author_name) ==
    Receive(p, "add_book", 0, author_name, "select_author")

begin_edit_book(p, book_id, author_name) ==
    Receive(p, "edit_book", book_id, author_name, "select_author")

\* add_author strips the name and answers an empty one before get_db.
begin_add_author(p, form_name) ==
    IF Strip(form_name) = <<>> /\ ~Blocked("add_author")
    THEN /\ Free(p)
         /\ resp' = Redirect("add_author", "POST", Path("add_author", 0))
         /\ UNCHANGED <<Tables, session, conn, txn>>
    ELSE Receive(p, "add_author", 0, Strip(form_name), "insert_author")

begin_delete_author(p, author_id) ==
    Receive(p, "delete_author", author_id, <<>>, "update_author")

\* SELECT id FROM authors WHERE name = ?  of add_book and edit_book
select_author(p) ==
    /\ conn[p].pc = "select_author"
    /\ LET author == AuthorByName(conn[p].name)
       IN  conn' = [conn EXCEPT ![p].author = author,
                                ![p].pc = IF author = NULL THEN "insert_author"
                                          ELSE "write_book"]
    /\ UNCHANGED <<Tables, session, resp, txn>>

\* INSERT INTO authors (name) VALUES (?): the first write of its request.
\* sqlite3.IntegrityError is caught by add_author, which goes on to its
\* redirect, and by nothing in add_book and edit_book.
insert_author(p) ==
    /\ conn[p].pc = "insert_author"
    /\ txn.holder = 0
    /\ IF UniqueViolation(conn[p].name, 0)
       THEN /\ resp' = IF conn[p].op = "add_author"
                       THEN Redirect("add_author", "POST", Path("authors", 0))
                       ELSE Unhandled(conn[p].op, "POST")
            /\ conn' = Closed(p)
            /\ UNCHANGED <<authors, books, quotes, txn>>
       ELSE /\ Statement(p, InsertAuthor(conn[p].name), books, quotes)
            /\ conn' = [conn EXCEPT ![p].author = Some(Len(authors) + 1),
                                    ![p].pc = IF conn[p].op = "add_author"
                                              THEN "commit" ELSE "write_book"]
            /\ UNCHANGED resp
    /\ UNCHANGED <<users, session>>

\* INSERT INTO books of add_book, UPDATE books ... WHERE id = ? of edit_book
write_book(p) ==
    /\ conn[p].pc = "write_book"
    /\ CanWrite(p)
    /\ LET v == View
           row(deleted) ==
               BookRow(BookForm.title, Val(conn[p].author), BookForm.format,
                       BookForm.status, BookForm.total_pages,
                       BookForm.current_page, deleted)
       IN  Statement(p, v.authors,
                     IF conn[p].op = "add_book"
                     THEN Append(v.books, row(0))
                     ELSE [b \in DOMAIN v.books |->
                              IF b = conn[p].arg THEN row(v.books[b].deleted)
                              ELSE v.books[b]],
                     v.quotes)
    /\ conn' = [conn EXCEPT ![p].pc = "commit"]
    /\ UNCHANGED <<users, session, resp>>

\* The three statements of delete_author.  No other connection writes while
\* the transaction is open, so the committed books and quotes are the rows
\* the second and third statement read.
update_author(p) ==
    /\ conn[p].pc = "update_author"
    /\ txn.holder = 0
    /\ Statement(p, AuthorsAfterDeleteAuthor(conn[p].arg), books, quotes)
    /\ conn' = [conn EXCEPT ![p].pc = "update_books"]
    /\ UNCHANGED <<users, session, resp>>

update_books(p) ==
    /\ conn[p].pc = "update_books"
    /\ txn.holder = p
    /\ Statement(p, txn.authors, BooksAfterDeleteAuthor(conn[p].arg), txn.quotes)
    /\ conn' = [conn EXCEPT ![p].pc = "update_quotes"]
    /\ UNCHANGED <<users, session, resp>>

update_quotes(p) ==
    /\ conn[p].pc = "update_quotes"
    /\ txn.holder = p
    /\ Statement(p, txn.authors, txn.books, QuotesAfterDeleteAuthor(conn[p].arg))
    /\ conn' = [conn EXCEPT ![p].pc = "commit"]
    /\ UNCHANGED <<users, session, resp>>

\* conn.commit(), conn.close() and the redirect
commit(p) ==
    /\ conn[p].pc = "commit"
    /\ txn.holder = p
    /\ authors' = txn.authors
    /\ books' = txn.books
    /\ quotes' = txn.quotes
    /\ txn' = NoTxn
    /\ conn' = Closed(p)
    /\ resp' = Redirect(conn[p].op, "POST",
                        Path(IF conn[p].op \in {"add_book", "edit_book"}
                             THEN "books" ELSE "authors", 0))
    /\ UNCHANGED <<users, session>>

\* A statement or the commit of the request on p raises (the disk is full,
\* the lock wait times out): Flask answers 500 and the connection is closed.
statement_fails(p) ==
    /\ conn[p].pc # "idle"
    /\ resp' = Unhandled(conn[p].op, "POST")
    /\ txn' = Rollback(p)
    /\ conn' = Closed(p)
    /\ UNCHANGED <<Tables, session>>

\* The server process dies: every request in flight is lost with its
\* connection, and the file keeps the committed rows.
process_crash ==
    /\ \E p \in Conns : conn[p].pc # "idle"
    /\ conn' = [p \in Conns |-> Idle]
    /\ txn' = NoTxn
    /\ UNCHANGED <<Tables, session, resp>>

Init ==
    /\ authors = <<>>
    /\ books = <<>>
    /\ quotes = <<>>
    /\ users = <<>>
    /\ session = [user_id |-> NULL, username |-> NULL, is_admin |-> NULL]
    /\ resp = Response("", "", FALSE, HTTP_OK, NoPath, NoPath, <<>>, "")
    /\ conn = [p \in Conns |-> Idle]
    /\ txn = NoTxn


(***************************************************************************)
(* The requests a client can make, with form fields drawn from the given   *)
(* sets and ids from 1 to one past the row bound.  A request that would    *)
(* take a table past its row bound is not made.                            *)
(***************************************************************************)
UserCommands(Usernames, Passwords) ==
    \E u \in Usernames, p \in Passwords, a \in BOOLEAN :
        create_user(u, p, a) /\ Len(users') <= MaxUsers

AuthRequests(UsernameForms, Passwords) ==
    \/ login_get
    \/ \E u \in UsernameForms, p \in Passwords, n \in {NoPath, Path("books", 0)} :
          login_post(u, p, n)
    \/ logout
    \/ static

ListRequests(Terms) ==
    \/ \E q \in Terms : books_list(q)
    \/ \E q \in Terms : quotes_list(q)

ReadRequests(Terms, maxAuthors, maxBooks, maxQuotes) ==
    \/ \E status \in {HTTP_NOT_FOUND, HTTP_NOT_ALLOWED} : no_route(status)
    \/ dashboard
    \/ add_book_get
    \/ \E b \in 1..(maxBooks + 1) : edit_book_get(b)
    \/ \E b \in 1..(maxBooks + 1) : view_book(b)
    \/ add_quote_get
    \/ \E q \in 1..(maxQuotes + 1) : edit_quote_get(q)
    \/ \E q \in Terms : authors_list(q)
    \/ add_author_get
    \/ \E a \in 1..(maxAuthors + 1) : edit_author_get(a)
    \/ \E a \in 1..(maxAuthors + 1) : author_detail(a)

BookPosts(Titles, Names, TotalPages, CurrentPages, maxAuthors, maxBooks) ==
    \/ \E t \in Titles, n \in Names, tp \in TotalPages, cp \in CurrentPages :
          /\ add_book_post(t, n, "PDF", "Reading", tp, cp)
          /\ Len(books') <= maxBooks
          /\ Len(authors') <= maxAuthors
    \/ \E b \in 1..(maxBooks + 1), t \in Titles, n \in Names, tp \in TotalPages,
          cp \in CurrentPages :
          /\ edit_book_post(b, t, n, "PDF", "Reading", tp, cp)
          /\ Len(authors') <= maxAuthors

BookDeletes(maxBooks) ==
    \E b \in 1..(maxBooks + 1) : delete_book(b)

QuotePosts(Contents, PageNumbers, maxBooks, maxQuotes) ==
    \/ \E b \in 1..(maxBooks + 1), c \in Contents, pn \in PageNumbers :
          /\ add_quote_post(b, c, pn)
          /\ Len(quotes') <= maxQuotes
    \/ \E q \in 1..(maxQuotes + 1), b \in 1..(maxBooks + 1), c \in Contents,
          pn \in PageNumbers :
          edit_quote_post(q, b, c, pn)

QuoteDeletes(maxQuotes) ==
    \E q \in 1..(maxQuotes + 1) : delete_quote(q)

AuthorPosts(NameForms, maxAuthors) ==
    \/ \E n \in NameForms :
          /\ add_author_post(n)
          /\ Len(authors') <= maxAuthors
    \/ \E a \in 1..(maxAuthors + 1), n \in NameForms : edit_author_post(a, n)

AuthorDeletes(maxAuthors) ==
    \E a \in 1..(maxAuthors + 1) : delete_author(a)

Pages == {NULL} \cup {Some(n) : n \in 1..MaxPage}
PagesOver == {NULL} \cup {Some(n) : n \in 1..(MaxPage + 1)}

(***************************************************************************)
(* Spec: every request, from the empty database with no user.  The         *)
(* credentials vary; the form fields of books, quotes and authors take one *)
(* value each and each table holds at most MaxRows rows.                   *)
(***************************************************************************)
Next ==
    \/ UserCommands({<<"u">>}, {"p"})
    \/ AuthRequests({<<"u">>, <<" ", "u">>, <<"w">>}, {"p", "q"})
    \/ ListRequests({<<>>})
    \/ ReadRequests({<<>>}, MaxRows, MaxRows, MaxRows)
    \/ BookPosts({<<"a">>}, {<<"a">>}, {NULL}, {0}, MaxRows, MaxRows)
    \/ BookDeletes(MaxRows)
    \/ QuotePosts({<<"a">>}, {NULL}, MaxRows, MaxRows)
    \/ QuoteDeletes(MaxRows)
    \/ AuthorPosts({<<"a">>}, MaxRows)
    \/ AuthorDeletes(MaxRows)

Spec == Init /\ [][Next]_vars

(***************************************************************************)
(* The database specifications start where a user has been created and has *)
(* logged in (create_user, then login_post, from Init), and make the       *)
(* requests that write, which only a logged-in session can make.           *)
(***************************************************************************)
InitLoggedIn ==
    /\ authors = <<>>
    /\ books = <<>>
    /\ quotes = <<>>
    /\ users = <<[username |-> <<"u">>,
                  password_hash |-> generate_password_hash("p"),
                  is_admin |-> 0]>>
    /\ session = [user_id |-> Some(1), username |-> Some(<<"u">>),
                  is_admin |-> Some(FALSE)]
    /\ resp = Redirect("login", "POST", Path("dashboard", 0))
    /\ conn = [p \in Conns |-> Idle]
    /\ txn = NoTxn

\* Authors and their books: find-or-create, rename, delete.
NextAuthors ==
    \/ BookPosts({<<"a">>}, {<<"a">>, <<"B">>, <<"c">>}, {NULL}, {0},
                 MaxAuthors, MaxRows)
    \/ BookDeletes(MaxRows)
    \/ AuthorPosts({<<"a">>, <<" ", "B">>, <<" ">>}, MaxAuthors)
    \/ AuthorDeletes(MaxAuthors)

SpecAuthors == InitLoggedIn /\ [][NextAuthors]_vars

\* Books of one author and their quotes.
NextBooks ==
    \/ BookPosts({<<"a">>}, {<<"a">>}, {Some(1)}, {1}, MaxAuthors, MaxBooks)
    \/ BookDeletes(MaxBooks)
    \/ QuotePosts({<<"a">>}, {NULL}, MaxBooks, MaxQuotes)
    \/ QuoteDeletes(MaxQuotes)

SpecBooks == InitLoggedIn /\ [][NextBooks]_vars

\* The cascade from authors to books to quotes.
NextCascade ==
    \/ BookPosts({<<"a">>}, {<<"a">>, <<"B">>}, {NULL}, {0}, MaxAuthors, MaxBooks)
    \/ BookDeletes(MaxBooks)
    \/ QuotePosts({<<"a">>}, {NULL}, MaxBooks, MaxRows)
    \/ QuoteDeletes(MaxRows)
    \/ AuthorDeletes(MaxAuthors)

SpecCascade == InitLoggedIn /\ [][NextCascade]_vars

\* Page numbers against total pages.
NextPages ==
    \/ BookPosts({<<"a">>}, {<<"a">>}, Pages, {0}, MaxAuthors, MaxBooks)
    \/ QuotePosts({<<"a">>}, PagesOver, MaxBooks, MaxRows)

SpecPages == InitLoggedIn /\ [][NextPages]_vars

\* The searches of the book list and of the quote list.
NextSearch ==
    \/ BookPosts({<<"a">>, <<"A", "b">>}, {<<"a">>, <<"B">>}, {NULL}, {0},
                 MaxAuthors, MaxBooks)
    \/ BookDeletes(MaxBooks)
    \/ QuotePosts({<<"a">>, <<"b">>}, {NULL}, MaxBooks, MaxRows)
    \/ QuoteDeletes(MaxRows)
    \/ ListRequests({<<>>, <<"a">>, <<"B">>, <<"_">>, <<"%">>})

SpecSearch == InitLoggedIn /\ [][NextSearch]_vars

\* delete_author statement by statement, at most MaxDeletes of them in
\* flight, with failures and crashes, beside requests that add books and
\* quotes when no transaction is open (a write waits for the open
\* transaction to end) and a request that reads at any time.
NextAtomic ==
    \/ \E p \in 1..MaxDeletes, a \in 1..(MaxRows + 1) : begin_delete_author(p, a)
    \/ \E p \in 1..MaxDeletes : update_author(p)
    \/ \E p \in 1..MaxDeletes : update_books(p)
    \/ \E p \in 1..MaxDeletes : update_quotes(p)
    \/ \E p \in 1..MaxDeletes : commit(p)
    \/ \E p \in 1..MaxDeletes : statement_fails(p)
    \/ process_crash
    \/ /\ txn.holder = 0
       /\ \E n \in {<<"a">>, <<"B">>} :
             add_book_post(<<"a">>, n, "PDF", "Reading", NULL, 0)
       /\ Len(books') <= MaxRows
       /\ Len(authors') <= MaxRows
    \/ /\ txn.holder = 0
       /\ \E b \in 1..(MaxRows + 1) : add_quote_post(b, <<"a">>, NULL)
       /\ Len(quotes') <= MaxRows
    \/ \E a \in 1..(MaxRows + 1) : author_detail(a)

SpecAtomic == InitLoggedIn /\ [][NextAtomic]_vars

\* add_book, edit_book and add_author statement by statement on every
\* connection.
NextRace ==
    \/ \E p \in Conns, n \in {<<"a">>, <<"B">>} : begin_add_book(p, n)
    \/ \E p \in Conns, b \in 1..(MaxRows + 1), n \in {<<"a">>, <<"B">>} :
          begin_edit_book(p, b, n)
    \/ \E p \in Conns, f \in {<<"a">>, <<" ", "B">>, <<" ">>} :
          begin_add_author(p, f)
    \/ \E p \in Conns : select_author(p)
    \/ \E p \in Conns : insert_author(p) /\ Len(txn'.authors) <= MaxAuthors
    \/ \E p \in Conns : write_book(p) /\ Len(txn'.books) <= MaxRows
    \/ \E p \in Conns : commit(p)

SpecRace == InitLoggedIn /\ [][NextRace]_vars


(***************************************************************************)
(* Claims.                                                                 *)
(***************************************************************************)

\* C1: every book with deleted = 0 has an author whose is_deleted is 0.
C1_LiveBookHasLiveAuthor ==
    \A b \in DOMAIN books :
        books[b].deleted = 0 =>
            /\ books[b].author_id \in DOMAIN authors
            /\ authors[books[b].author_id].is_deleted = 0

\* C2: every quote with is_deleted = 0 belongs to a book whose deleted is 0.
C2_LiveQuoteHasLiveBook ==
    \A q \in DOMAIN quotes :
        quotes[q].is_deleted = 0 =>
            /\ quotes[q].book_id \in DOMAIN books
            /\ books[quotes[q].book_id].deleted = 0

\* The page number is present and greater than the selected book's total.
PageOverTotal(book_id, page_number) ==
    /\ book_id \in DOMAIN books
    /\ page_number # NULL
    /\ books[book_id].total_pages # NULL
    /\ \E pn \in page_number, tp \in books[book_id].total_pages : pn > tp

\* C3: an add_quote or edit_quote submission whose page number is greater
\* than the selected book's total_pages is answered 400 and leaves the quotes
\* table as it was (no row inserted, none updated, the same count).
C3_PageOverTotalRejected ==
    [][resp'.op \in {"add_quote", "edit_quote"} =>
        \A b \in 1..(MaxBooks + 1), c \in {<<"a">>}, pn \in PagesOver :
          PageOverTotal(b, pn) =>
             /\ add_quote_post(b, c, pn) =>
                   /\ resp'.status = HTTP_BAD_REQUEST
                   /\ quotes' = quotes
                   /\ Len(quotes') = Len(quotes)
             /\ \A q \in 1..(MaxRows + 1) :
                   edit_quote_post(q, b, c, pn) =>
                      /\ resp'.status = HTTP_BAD_REQUEST
                      /\ quotes' = quotes
                      /\ Len(quotes') = Len(quotes)]_vars

\* An edit_quote submission has been rejected for its page number, with a
\* quote in the table.
C3_Witness ==
    /\ resp.op = "edit_quote"
    /\ resp.status = HTTP_BAD_REQUEST
    /\ quotes # <<>>
    /\ \E b \in DOMAIN books : books[b].total_pages # NULL

\* The books of author a, and the quotes of those books, before a request.
BooksOf(a) == {b \in DOMAIN books : books[b].author_id = a}
QuotesOf(a) == {q \in DOMAIN quotes : quotes[q].book_id \in BooksOf(a)}

\* C4: after delete_author(a), author a has is_deleted = 1, every book with
\* author_id = a has deleted = 1 and every quote of such a book has
\* is_deleted = 1; when a's books have no quotes no quote row changes.
C4_DeleteAuthorCascades ==
    [][resp'.op = "delete_author" =>
        \A a \in 1..(MaxAuthors + 1) :
          delete_author(a) =>
             /\ a \in DOMAIN authors => authors'[a].is_deleted = 1
             /\ \A b \in DOMAIN books' :
                   books'[b].author_id = a => books'[b].deleted = 1
             /\ \A q \in DOMAIN quotes' :
                   (/\ quotes'[q].book_id \in DOMAIN books'
                    /\ books'[quotes'[q].book_id].author_id = a)
                   => quotes'[q].is_deleted = 1
             /\ QuotesOf(a) = {} => quotes' = quotes]_vars

\* delete_author has just flagged an author, a book of theirs and a quote
\* of that book.
C4_Witness ==
    /\ resp.op = "delete_author"
    /\ \E a \in DOMAIN authors, b \in DOMAIN books, q \in DOMAIN quotes :
          /\ authors[a].is_deleted = 1
          /\ books[b].author_id = a /\ books[b].deleted = 1
          /\ quotes[q].book_id = b /\ quotes[q].is_deleted = 1
    /\ \E o \in DOMAIN authors : authors[o].is_deleted = 0

\* C5: delete_book(b) sets deleted = 1 on book b and is_deleted = 1 on
\* exactly the quotes with book_id = b; no row is removed, no other book,
\* quote or author changes, and the other fields of book b keep their values.
C5_DeleteBookFrame ==
    [][resp'.op = "delete_book" =>
        \A b \in 1..(MaxBooks + 1) :
          delete_book(b) =>
             /\ authors' = authors
             /\ users' = users
             /\ DOMAIN books' = DOMAIN books
             /\ DOMAIN quotes' = DOMAIN quotes
             /\ \A x \in DOMAIN books :
                   /\ books'[x].title = books[x].title
                   /\ books'[x].author_id = books[x].author_id
                   /\ books'[x].format = books[x].format
                   /\ books'[x].status = books[x].status
                   /\ books'[x].total_pages = books[x].total_pages
                   /\ books'[x].current_page = books[x].current_page
                   /\ books'[x].deleted = IF x = b THEN 1 ELSE books[x].deleted
             /\ \A q \in DOMAIN quotes :
                   /\ quotes'[q].book_id = quotes[q].book_id
                   /\ quotes'[q].content = quotes[q].content
                   /\ quotes'[q].page_number = quotes[q].page_number
                   /\ quotes'[q].is_deleted =
                         IF quotes[q].book_id = b THEN 1 ELSE quotes[q].is_deleted]_vars

\* delete_book has just run: a deleted book with a deleted quote, beside a
\* book and a quote of it that are not deleted.
C5_Witness ==
    /\ resp.op = "delete_book"
    /\ \E b \in DOMAIN books, q \in DOMAIN quotes :
          /\ books[b].deleted = 1 /\ books[b].current_page = 1
          /\ quotes[q].book_id = b /\ quotes[q].is_deleted = 1
    /\ \E b \in DOMAIN books, q \in DOMAIN quotes :
          /\ books[b].deleted = 0
          /\ quotes[q].book_id = b /\ quotes[q].is_deleted = 0

\* The number of author rows, deleted or not, with this name.
Named(name) == Cardinality({a \in DOMAIN authors : authors[a].name = name})

\* C6: no two author rows (deleted or not) have the same name, and after an
\* author named n is created or resolved by add_author, add_book or
\* edit_book, or an author is renamed to n by edit_author, exactly one
\* author row is named n.
C6_OneAuthorPerName ==
    [][/\ \A i, j \in DOMAIN authors' :
             authors'[i].name = authors'[j].name => i = j
       /\ resp'.op \in {"add_author", "edit_author"} =>
           \A f \in {<<"a">>, <<" ", "B">>, <<" ">>} :
             /\ (add_author_post(f) /\ Strip(f) # <<>>) => Named(Strip(f))' = 1
             /\ \A a \in 1..(MaxAuthors + 1) :
                   (edit_author_post(a, f) /\ ActiveAuthor(a) /\ Strip(f) # <<>>)
                   => Named(Strip(f))' = 1
       /\ resp'.op \in {"add_book", "edit_book"} =>
           \A n \in {<<"a">>, <<"B">>, <<"c">>} :
             /\ add_book_post(<<"a">>, n, "PDF", "Reading", NULL, 0)
                   => Named(n)' = 1
             /\ \A b \in 1..(MaxRows + 1) :
                   edit_book_post(b, <<"a">>, n, "PDF", "Reading", NULL, 0)
                   => Named(n)' = 1]_vars

\* add_author has been submitted with the name of the only author, who was
\* soft-deleted before: the table still holds that one row.
C6_Witness ==
    /\ resp.op = "add_author"
    /\ resp.location = Path("authors", 0)
    /\ Len(authors) = 1
    /\ authors[1].is_deleted = 1

\* C7: for a non-empty search term the quote list holds no quote that is
\* soft-deleted and no quote of a soft-deleted book.
C7_QuoteSearchHidesDeleted ==
    [][resp'.op = "quotes" =>
        \A term \in {<<"a">>, <<"B">>, <<"_">>, <<"%">>} :
          quotes_list(term) =>
             \A i \in DOMAIN resp'.body :
                /\ quotes[resp'.body[i]].is_deleted = 0
                /\ books[quotes[resp'.body[i]].book_id].deleted = 0]_vars

\* text contains term as a substring, up to the case of letters.
Contains(text, term) ==
    \E i \in 0..(Len(text) - Len(term)) :
        \A k \in 1..Len(term) : Lower(text[i + k]) = Lower(term[k])

\* C8: the book list for term s is exactly the books with deleted = 0 whose
\* title or author name contains s as a case-insensitive substring (every
\* non-deleted book when s is empty), by descending id.
C8_BookListIsSubstringMatch ==
    [][resp'.op = "books" =>
        \A term \in {<<>>, <<"a">>, <<"B">>, <<"_">>, <<"%">>} :
          books_list(term) =>
             resp'.body =
                SelectSeq(Desc(Len(books)), LAMBDA b :
                    /\ books[b].deleted = 0
                    /\ \/ Contains(books[b].title, term)
                       \/ Contains(authors[books[b].author_id].name, term))]_vars

\* The gate's answer to request A for endpoint op with id arg in its path.
GateAnswers(A, op, arg) ==
    (resp'.op = op /\ A) =>
         /\ resp'.status = HTTP_FOUND
         /\ resp'.location = Path("login", 0)
         /\ resp'.next = Path(op, arg)
         /\ ~resp'.handled
         /\ resp'.body = <<>>
         /\ UNCHANGED <<authors, books, quotes, users, session>>

\* C9: a request to an endpoint other than login, logout and static made
\* while the session holds no user_id is redirected to login with the
\* requested path as next; the handler does not run and no row of authors,
\* books, quotes or users is rendered or changed.
C9_GateRedirectsToLogin ==
    [][NoUser =>
        /\ \A status \in {HTTP_NOT_FOUND, HTTP_NOT_ALLOWED} :
              GateAnswers(no_route(status), NoEndpoint, 0)
        /\ GateAnswers(dashboard, "dashboard", 0)
        /\ GateAnswers(books_list(<<>>), "books", 0)
        /\ GateAnswers(quotes_list(<<>>), "quotes", 0)
        /\ GateAnswers(authors_list(<<>>), "authors", 0)
        /\ GateAnswers(add_book_get, "add_book", 0)
        /\ GateAnswers(add_quote_get, "add_quote", 0)
        /\ GateAnswers(add_author_get, "add_author", 0)
        /\ GateAnswers(add_book_post(<<"a">>, <<"a">>, "PDF", "Reading", NULL, 0),
                       "add_book", 0)
        /\ GateAnswers(add_author_post(<<"a">>), "add_author", 0)
        /\ \A i \in 1..(MaxRows + 1) :
              /\ GateAnswers(edit_book_get(i), "edit_book", i)
              /\ GateAnswers(edit_book_post(i, <<"a">>, <<"a">>, "PDF", "Reading",
                                            NULL, 0), "edit_book", i)
              /\ GateAnswers(view_book(i), "view_book", i)
              /\ GateAnswers(delete_book(i), "delete_book", i)
              /\ GateAnswers(add_quote_post(i, <<"a">>, NULL), "add_quote", 0)
              /\ GateAnswers(edit_quote_get(i), "edit_quote", i)
              /\ \A b \in 1..(MaxRows + 1) :
                    GateAnswers(edit_quote_post(i, b, <<"a">>, NULL),
                                "edit_quote", i)
              /\ GateAnswers(delete_quote(i), "delete_quote", i)
              /\ GateAnswers(edit_author_get(i), "edit_author", i)
              /\ GateAnswers(edit_author_post(i, <<"a">>), "edit_author", i)
              /\ GateAnswers(delete_author(i), "delete_author", i)
              /\ GateAnswers(author_detail(i), "author_detail", i)]_vars

\* A delete of an existing, non-deleted book was asked for with no user in
\* the session and was redirected to login.
C9_Witness ==
    /\ NoUser
    /\ resp.op = "delete_book"
    /\ ~resp.handled
    /\ resp.next = Path("delete_book", 1)
    /\ books # <<>> /\ books[1].deleted = 0

\* The credentials of a login submission: the stripped username is a
\* user's and the password is the one that user's hash was made from.
GoodCredentials(form_username, password) ==
    \E i \in DOMAIN users :
        /\ users[i].username = Strip(form_username)
        /\ users[i].password_hash = generate_password_hash(password)

LoginForms == {<<"u">>, <<" ", "u">>, <<"w">>}
LoginPasswords == {"p", "q"}
LoginNexts == {NoPath, Path("books", 0)}
SessionCleared == [user_id |-> NULL, username |-> NULL, is_admin |-> NULL]

\* The session gets a user_id only by a login submission with good
\* credentials, keeps it unchanged until a logout, and logout removes
\* user_id, username and is_admin whatever the session held.
SessionHeldFromLoginToLogout ==
    /\ (session.user_id = NULL /\ session'.user_id # NULL) =>
          \E u \in LoginForms, p \in LoginPasswords, n \in LoginNexts :
              login_post(u, p, n) /\ GoodCredentials(u, p)
    /\ (session.user_id # NULL /\ session' # session) => logout
    /\ (resp'.op = "logout" /\ logout) => session' = SessionCleared

\* C10 as stated: besides the above, every login submission with an unknown
\* username or a wrong password leaves the session and all rows unchanged
\* and reports the generic message.
C10_FailedLoginReportsMessage ==
    [][/\ SessionHeldFromLoginToLogout
       /\ resp'.op = "login" =>
           \A u \in LoginForms, p \in LoginPasswords, n \in LoginNexts :
             (login_post(u, p, n) /\ ~GoodCredentials(u, p)) =>
                /\ UNCHANGED <<session, authors, books, quotes, users>>
                /\ resp'.flash = InvalidCredentials]_vars

\* C10, amended: the generic message is reported when the session holds no
\* user_id; a login submission made while the session holds a user_id is
\* redirected to the dashboard without a message, whatever its credentials.
C10_FailedLoginLeavesSession ==
    [][/\ SessionHeldFromLoginToLogout
       /\ resp'.op = "login" =>
           \A u \in LoginForms, p \in LoginPasswords, n \in LoginNexts :
             /\ (login_post(u, p, n) /\ ~GoodCredentials(u, p)) =>
                   /\ UNCHANGED <<session, authors, books, quotes, users>>
                   /\ NoUser => /\ resp'.flash = InvalidCredentials
                                /\ resp'.status = HTTP_OK
             /\ (login_post(u, p, n) /\ ~NoUser) =>
                   /\ UNCHANGED <<session, authors, books, quotes, users>>
                   /\ resp'.flash = ""
                   /\ resp'.status = HTTP_FOUND
                   /\ resp'.location = Path("dashboard", 0)]_vars

\* A login submission has failed against an existing user: the message is
\* reported and the session holds no user_id.
C10_Witness ==
    /\ resp.op = "login"
    /\ resp.method = "POST"
    /\ resp.flash = InvalidCredentials
    /\ users # <<>>
    /\ NoUser


\* The response is a not-found outcome: a 404, or a redirect that flashes a
\* message.
NotFoundOutcome(r) ==
    \/ r.status = HTTP_NOT_FOUND
    \/ r.status = HTTP_FOUND /\ r.flash # ""

\* The id names no row of the table, or a row that is soft-deleted.
NoLiveBook(book_id) == book_id \notin DOMAIN books \/ books[book_id].deleted = 1
NoLiveQuote(quote_id) ==
    quote_id \notin DOMAIN quotes \/ quotes[quote_id].is_deleted = 1
NoLiveAuthor(author_id) ==
    author_id \notin DOMAIN authors \/ authors[author_id].is_deleted = 1

\* C13: with a user logged in, an edit_book, edit_quote or edit_author
\* submission whose target id does not exist or is soft-deleted, and an
\* add_quote or edit_quote submission whose book_id does not exist or is
\* soft-deleted, ends in a not-found outcome and changes no stored row.
C13_MissingTargetIsNotFound ==
    [][~NoUser =>
        \A i \in 1..(MaxRows + 1) :
          /\ (/\ resp'.op = "edit_book"
              /\ NoLiveBook(i)
              /\ edit_book_post(i, <<"a">>, <<"a">>, "PDF", "Reading", NULL, 0))
             => NotFoundOutcome(resp') /\ UNCHANGED Tables
          /\ (/\ resp'.op = "edit_author"
              /\ NoLiveAuthor(i)
              /\ edit_author_post(i, <<"a">>))
             => NotFoundOutcome(resp') /\ UNCHANGED Tables
          /\ (/\ resp'.op = "add_quote"
              /\ NoLiveBook(i)
              /\ add_quote_post(i, <<"a">>, NULL))
             => NotFoundOutcome(resp') /\ UNCHANGED Tables
          /\ \A b \in 1..(MaxRows + 1) :
                (/\ resp'.op = "edit_quote"
                 /\ NoLiveQuote(i) \/ NoLiveBook(b)
                 /\ edit_quote_post(i, b, <<"a">>, NULL))
                => NotFoundOutcome(resp') /\ UNCHANGED Tables]_vars

\* The quote has a page number and its book has no total_pages or a smaller
\* one.
PageBeyondBook(q) ==
    /\ quotes[q].page_number # NULL
    /\ \/ quotes[q].book_id \notin DOMAIN books
       \/ books[quotes[q].book_id].total_pages = NULL
       \/ \E pn \in quotes[q].page_number,
             tp \in books[quotes[q].book_id].total_pages : pn > tp

\* C14: every quote that has a page_number has page_number less than or
\* equal to the total_pages of its book, which is present.
C14_PageWithinBookTotal ==
    \A q \in DOMAIN quotes : ~PageBeyondBook(q)

\* The three writes of delete_author(a), all applied to the committed rows.
DeleteAuthorApplied(a) ==
    /\ authors' = AuthorsAfterDeleteAuthor(a)
    /\ books' = BooksAfterDeleteAuthor(a)
    /\ quotes' = QuotesAfterDeleteAuthor(a)

\* What a step may do to the committed rows on behalf of the delete_author
\* request of connection p: nothing, or, when it is the commit, all three
\* writes; it never marks the author without marking every book that has
\* the author_id, nor such a book without marking its quotes.
DeleteAuthorWhole(p) ==
    LET a == conn[p].arg
    IN  /\ \/ UNCHANGED <<authors, books, quotes>>
           \/ conn[p].pc = "commit" /\ DeleteAuthorApplied(a)
        /\ (/\ a \in DOMAIN authors
            /\ authors[a].is_deleted = 0
            /\ authors'[a].is_deleted = 1)
           => \A b \in BooksOf(a) : books'[b].deleted = 1
        /\ \A b \in BooksOf(a) :
              (books[b].deleted = 0 /\ books'[b].deleted = 1)
              => \A q \in DOMAIN quotes :
                    quotes[q].book_id = b => quotes'[q].is_deleted = 1

\* C11: the three writes of delete_author take effect as one unit.  Every
\* step of a delete_author request (a statement, the commit, a failure
\* between statements, a crash of the process) and every step any request
\* takes while the delete's transaction is open leaves the committed rows,
\* which are what a concurrent request reads and what a crash leaves,
\* either as they were or, at the commit, with the author, the author's
\* books and those books' quotes all marked.
C11_DeleteAuthorAtomic ==
    [][\A p \in Conns :
          conn[p].op = "delete_author" =>
             /\ conn'[p] # conn[p] => DeleteAuthorWhole(p)
             /\ txn.holder = p => DeleteAuthorWhole(p)]_vars

\* A delete_author has executed its first two statements and not yet
\* committed: its transaction holds the author and a book of theirs marked,
\* while the committed author, book and a quote of the book are not marked.
C11_Witness ==
    \E p \in Conns, b \in DOMAIN books, q \in DOMAIN quotes :
       LET a == conn[p].arg
       IN  /\ conn[p].op = "delete_author"
           /\ conn[p].pc = "update_quotes"
           /\ txn.holder = p
           /\ a \in DOMAIN authors
           /\ books[b].author_id = a
           /\ quotes[q].book_id = b
           /\ txn.authors[a].is_deleted = 1 /\ txn.books[b].deleted = 1
           /\ authors[a].is_deleted = 0
           /\ books[b].deleted = 0
           /\ quotes[q].is_deleted = 0

\* The INSERT INTO authors of the request on p, which found no author of
\* the name (add_book, edit_book) or did not look (add_author), is rejected:
\* another request has committed the name since.
LosesInsert(p) ==
    /\ conn[p].op \in {"add_book", "edit_book", "add_author"}
    /\ UniqueViolation(conn[p].name, 0)
    /\ insert_author(p)

\* C12: the request whose author insert is rejected by the uniqueness
\* constraint ends handled, with a redirect, and not with an unhandled
\* fault (500).
C12_LosingInsertIsHandled ==
    [][\A p \in Conns :
          LosesInsert(p) =>
             /\ resp'.status = HTTP_FOUND
             /\ resp'.status # HTTP_SERVER_ERROR]_vars
=============================================================================
